---- MODULE Spec2Model ----
(***************************************************************************)
(* A model of src/s3.py: four helpers over an S3 client                    *)
(* (list_objects_s3, upload_object_s3, download_object_s3,                 *)
(* delete_object_s3), together with the part of the S3 service and of      *)
(* boto3's managed transfers that the helpers call.                        *)
(*                                                                         *)
(* Each helper is a synchronous call: the model runs one call at a time    *)
(* and splits a call into one step per service request, so that a request  *)
(* can fail between any two of them.  A failed request has no effect on    *)
(* the bucket.                                                             *)
(***************************************************************************)
EXTENDS Integers, Sequences, FiniteSets

VARIABLES
    bucket,              \* the bucket: object key -> object content (DOMAIN = visible keys)
    fs,                  \* the local filesystem: path -> file content (DOMAIN = existing files)
    mpu,                 \* the service's pending multipart upload: part number -> part data
    pc,                  \* position of the running call
    op,                  \* the helper that runs, or ran last
    args,                \* its arguments
    continuation_token,  \* list_objects_s3: local continuation_token
    object_keys,         \* list_objects_s3: local object_keys
    requests,            \* list_objects_v2 requests issued by the call, in order
    responses,           \* the responses to them, in order
    transfer,            \* upload: "none", "single" or "multipart"
    failed,              \* a service request of the call failed
    cause,               \* the cause the failed request carried
    logged,              \* the helper printed an error message
    raised,              \* the exception the helper let reach its caller
    ret,                 \* the helper's return value
    pre,                 \* the bucket when the call began
    preFs,               \* the filesystem when the call began
    prev                 \* the call that completed before this one

vars == <<bucket, fs, mpu, pc, op, args, continuation_token, object_keys,
          requests, responses, transfer, failed, cause, logged, raised, ret,
          pre, preFs, prev>>

----------------------------------------------------------------------------
(* Bounds of the model. *)

\* Keys <<1, 1>> .. <<1, MaxLogs>> can be in the bucket, beside <<1>> and <<2, 1>>.
MaxLogs == 3
\* max_keys ranges over 1 .. MaxPageSize.
MaxPageSize == 3
\* One element of a file's content stands for Granule bytes.
Granule == 4194304

----------------------------------------------------------------------------
(* Values. *)

Min(a, b) == IF a <= b THEN a ELSE b

\* Python's None, and a str value: a continuation token is one or the other.
None == [present |-> FALSE, str |-> <<>>]
Str(s) == [present |-> TRUE, str |-> s]

\* Truthy, had the code tested "is not None".
TruthyIsNotNone(tok) == tok.present

\* Python truthiness of a token: None and "" are falsy.
Truthy(tok) == tok.present /\ tok.str # <<>>

\* Object keys are strings, modelled as sequences of character codes.
Keys == {<<1>>, <<2, 1>>} \cup {<<1, i>> : i \in 1..MaxLogs}
Prefixes == {<<>>, <<1>>, <<1, 1>>, <<2>>, <<3>>}
BucketName == "bucket-a"

IsPrefix(p, k) == Len(p) <= Len(k) /\ SubSeq(k, 1, Len(p)) = p

\* The service lists keys in lexicographic (UTF-8 binary) order.
RECURSIVE LexLess(_, _)
LexLess(a, b) ==
    IF a = <<>> THEN b # <<>>
    ELSE IF b = <<>> THEN FALSE
    ELSE IF Head(a) # Head(b) THEN Head(a) < Head(b)
    ELSE LexLess(Tail(a), Tail(b))

RECURSIVE SortKeys(_)
SortKeys(S) ==
    IF S = {} THEN <<>>
    ELSE LET m == CHOOSE k \in S : \A j \in S \ {k} : LexLess(k, j)
         IN  <<m>> \o SortKeys(S \ {m})

SeqToSet(s) == {s[i] : i \in 1..Len(s)}
----------------------------------------------------------------------------
(* The S3 service: list_objects_v2. *)

Causes == {"network", "access-denied"}

Failure(c) ==
    [ok |-> FALSE, hasContents |-> FALSE, Contents |-> <<>>,
     NextContinuationToken |-> None, cause |-> c]

Page(keys, tok) ==
    [ok |-> TRUE, hasContents |-> keys # <<>>, Contents |-> keys,
     NextContinuationToken |-> tok, cause |-> "none"]

\* The keys of b a listing of req still has to return, in listing order: the
\* keys under req.Prefix, after the key the continuation token stands for.
Remaining(b, req) ==
    SortKeys({k \in DOMAIN b :
                /\ IsPrefix(req.Prefix, k)
                /\ req.ContinuationToken.present => LexLess(req.ContinuationToken.str, k)})

\* The successful responses the service can give to req.  A page holds at
\* most MaxKeys keys and may hold fewer; NextContinuationToken is present
\* exactly when keys remain after the page, and the end of the listing is
\* reported by a response without the token or with an empty one.
ListObjectsV2(b, req) ==
    LET rem == Remaining(b, req)
    IN  IF req.ContinuationToken = Str(<<>>)
        THEN {}    \* an empty token is no token of the service: the request is refused
        ELSE IF rem = <<>>
        THEN {Page(<<>>, t) : t \in {None, Str(<<>>)}}
        ELSE UNION {
               IF n < Len(rem)
               THEN {Page(SubSeq(rem, 1, n), Str(rem[n]))}
               ELSE {Page(rem, t) : t \in {None, Str(<<>>)}}
               : n \in 1..Min(req.MaxKeys, Len(rem))}

----------------------------------------------------------------------------
(* Calls. *)

NoCall == [op |-> "none", object_name |-> <<>>, path |-> "none", transfer |-> "none",
           ok |-> FALSE]
NoArgs == [bucket_name |-> BucketName, prefix |-> <<>>, max_keys |-> 0,
           object_name |-> <<>>, path |-> "none"]
NoValue == [isNone |-> TRUE, keys |-> <<>>]
NoError == [type |-> "none", cause |-> "none"]
NoMpu == [open |-> FALSE, key |-> <<>>, parts |-> <<>>]

\* A helper is entered: its locals are fresh, and the call before it is kept.
Begin(o, a) ==
    /\ pc \in {"idle", "done"}
    /\ op' = o
    /\ args' = a
    /\ continuation_token' = None
    /\ object_keys' = <<>>
    /\ requests' = <<>>
    /\ responses' = <<>>
    /\ transfer' = "none"
    /\ failed' = FALSE
    /\ cause' = "none"
    /\ logged' = FALSE
    /\ raised' = NoError
    /\ ret' = NoValue
    /\ pre' = bucket
    /\ preFs' = fs
    /\ prev' = IF pc = "done"
               THEN [op |-> op, object_name |-> args.object_name, path |-> args.path,
                     transfer |-> transfer, ok |-> ~failed]
               ELSE prev
    /\ UNCHANGED <<bucket, fs, mpu>>

----------------------------------------------------------------------------------------------------------------------------------------
(* The helpers' common endings. *)

\* A helper returns value.
Return(value) ==
    /\ ret' = value
    /\ pc' = "done"
    /\ UNCHANGED <<failed, cause, logged, raised>>

\* "except Exception as e: print(...)": the exception of a failed request is
\* printed and goes no further; the helper then returns value.
Except(c, value) ==
    /\ failed' = TRUE
    /\ cause' = c
    /\ logged' = TRUE
    /\ raised' = NoError
    /\ ret' = value
    /\ pc' = "done"

----------------------------------------------------------------------------
(* list_objects_s3 *)

ListCall(prefix, max_keys) ==
    /\ Begin("list", [NoArgs EXCEPT !.prefix = prefix, !.max_keys = max_keys])
    /\ pc' = "list"

\* ListRequest, had the call of the continuation branch left MaxKeys out
\* (the service then uses its default of 1000).
ListRequestNoMaxKeys ==
    [Bucket |-> args.bucket_name, Prefix |-> args.prefix,
     MaxKeys |-> IF Truthy(continuation_token) THEN 1000 ELSE args.max_keys,
     ContinuationToken |-> IF Truthy(continuation_token) THEN continuation_token ELSE None]

\* The request of one loop iteration: ContinuationToken is passed only when
\* the local token is truthy.
ListRequest ==
    [Bucket |-> args.bucket_name, Prefix |-> args.prefix, MaxKeys |-> args.max_keys,
     ContinuationToken |-> IF Truthy(continuation_token) THEN continuation_token ELSE None]

\* Extend, had the code assigned the page instead of extending the list.
ExtendOverwrite(keys, resp) == IF resp.hasContents THEN resp.Contents ELSE keys

\* object_keys after a response: the keys of "Contents", when it is there.
Extend(keys, resp) == IF resp.hasContents THEN keys \o resp.Contents ELSE keys

\* The rest of the loop body after a response: extend object_keys, take the
\* response's token, and leave the loop when it is falsy.
ListBody(resp) ==
    /\ object_keys' = Extend(object_keys, resp)
    /\ continuation_token' = resp.NextContinuationToken
    /\ IF Truthy(resp.NextContinuationToken)
       THEN /\ pc' = "list"
            /\ UNCHANGED <<ret, failed, cause, logged, raised>>
       ELSE Return([isNone |-> FALSE, keys |-> Extend(object_keys, resp)])

\* ListFailed, had the except clause returned an empty list.
ListFailedEmpty(resp) ==
    /\ Except(resp.cause, [isNone |-> FALSE, keys |-> <<>>])
    /\ UNCHANGED <<continuation_token, object_keys>>

\* The request raised: the except clause, then "return object_keys".
ListFailed(resp) ==
    /\ Except(resp.cause, [isNone |-> FALSE, keys |-> object_keys])
    /\ UNCHANGED <<continuation_token, object_keys>>

\* One iteration of the while loop.
ListPage ==
    /\ pc = "list"
    /\ requests' = Append(requests, ListRequest)
    /\ \/ \E c \in Causes :
            /\ responses' = Append(responses, Failure(c))
            /\ ListFailed(Failure(c))
       \/ \E resp \in ListObjectsV2(bucket, ListRequest) :
            /\ responses' = Append(responses, resp)
            /\ ListBody(resp)
    /\ UNCHANGED <<bucket, fs, mpu, op, args, transfer, pre, preFs, prev>>

----------------------------------------------------------------------------
(* boto3's managed upload (s3_client.upload_file with the TransferConfig). *)

multipart_threshold == (8 * 1024 * 1024) \div Granule
multipart_chunksize == (8 * 1024 * 1024) \div Granule

\* File sizes reach a multipart upload of more than two parts.
MaxFileSize == multipart_threshold + multipart_chunksize + 1

\* The local file's content: any size up to MaxFileSize, every element
\* different, so that a part out of place or missing shows.
Contents == {[i \in 1..n |-> i] : n \in 0..MaxFileSize}

\* s3transfer's choice of the transfer, from the file's size:
\* requires_multipart_upload is "size >= config.multipart_threshold".
RequiresMultipart(size) == size >= multipart_threshold

NumParts(size) == (size + multipart_chunksize - 1) \div multipart_chunksize

\* Part i of the file's content.
Chunk(content, i) ==
    SubSeq(content, (i - 1) * multipart_chunksize + 1,
           Min(i * multipart_chunksize, Len(content)))

\* Assemble, had the service put the parts together last part first.
RECURSIVE AssembleReversed(_, _)
AssembleReversed(parts, n) ==
    IF n = 0 THEN <<>> ELSE parts[n] \o AssembleReversed(parts, n - 1)

\* CompleteMultipartUpload: the parts, in part-number order.
RECURSIVE Assemble(_, _)
Assemble(parts, n) ==
    IF n = 0 THEN <<>> ELSE Assemble(parts, n - 1) \o parts[n]

Put(b, key, content) == [k \in DOMAIN b \cup {key} |-> IF k = key THEN content ELSE b[k]]
Remove(f, x) == [k \in DOMAIN f \ {x} |-> f[k]]

----------------------------------------------------------------------------
(* upload_object_s3 *)

\* A request of a transfer or a delete, as the call's log keeps it.
Request(name, part) == [Request |-> name, Key |-> args.object_name, PartNumber |-> part]

UploadCall(key, path) ==
    /\ path \in DOMAIN fs
    /\ Begin("upload", [NoArgs EXCEPT !.object_name = key, !.path = path])
    /\ pc' = "upload"

\* upload_file submits the transfer: PutObject for a single-request upload,
\* CreateMultipartUpload for a multipart one.
UploadSubmit ==
    /\ pc = "upload"
    /\ LET content == fs[args.path]
       IN  IF RequiresMultipart(Len(content))
           THEN /\ transfer' = "multipart"
                /\ requests' = Append(requests, Request("CreateMultipartUpload", 0))
                /\ \/ /\ mpu' = [open |-> TRUE, key |-> args.object_name, parts |-> <<>>]
                      /\ pc' = "upload_parts"
                      /\ UNCHANGED <<failed, cause, logged, raised, ret>>
                   \/ /\ \E c \in Causes : Except(c, NoValue)
                      /\ UNCHANGED mpu
                /\ UNCHANGED bucket
           ELSE /\ transfer' = "single"
                /\ requests' = Append(requests, Request("PutObject", 0))
                /\ \/ /\ bucket' = Put(bucket, args.object_name, content)
                      /\ Return(NoValue)
                   \/ /\ \E c \in Causes : Except(c, NoValue)
                      /\ UNCHANGED bucket
                /\ UNCHANGED mpu
    /\ UNCHANGED <<fs, op, args, continuation_token, object_keys, responses,
                   pre, preFs, prev>>

\* UploadPart, had a part become visible under the key as soon as it is sent.
UploadPartVisible(i) ==
    /\ pc = "upload_parts"
    /\ i \in 1..NumParts(Len(fs[args.path])) \ DOMAIN mpu.parts
    /\ requests' = Append(requests, Request("UploadPart", i))
    /\ \/ /\ mpu' = [mpu EXCEPT !.parts =
                       [j \in DOMAIN mpu.parts \cup {i} |->
                          IF j = i THEN Chunk(fs[args.path], i) ELSE mpu.parts[j]]]
          /\ bucket' = Put(bucket, mpu.key, Chunk(fs[args.path], i))
          /\ UNCHANGED <<pc, failed, cause, logged, raised, ret>>
       \/ /\ mpu' = NoMpu
          /\ \E c \in Causes : Except(c, NoValue)
          /\ UNCHANGED bucket
    /\ UNCHANGED <<fs, op, args, continuation_token, object_keys,
                   responses, transfer, pre, preFs, prev>>

\* UploadPart of part i; the parts are sent by a thread pool, in any order.
\* A part that fails ends the transfer with AbortMultipartUpload.
UploadPart(i) ==
    /\ pc = "upload_parts"
    /\ i \in 1..NumParts(Len(fs[args.path])) \ DOMAIN mpu.parts
    /\ requests' = Append(requests, Request("UploadPart", i))
    /\ \/ /\ mpu' = [mpu EXCEPT !.parts =
                       [j \in DOMAIN mpu.parts \cup {i} |->
                          IF j = i THEN Chunk(fs[args.path], i) ELSE mpu.parts[j]]]
          /\ UNCHANGED <<pc, failed, cause, logged, raised, ret>>
       \/ /\ mpu' = NoMpu
          /\ \E c \in Causes : Except(c, NoValue)
    /\ UNCHANGED <<bucket, fs, op, args, continuation_token, object_keys,
                   responses, transfer, pre, preFs, prev>>

\* CompleteMultipartUpload, once every part is there: the object becomes visible.
UploadComplete ==
    /\ pc = "upload_parts"
    /\ DOMAIN mpu.parts = 1..NumParts(Len(fs[args.path]))
    /\ requests' = Append(requests, Request("CompleteMultipartUpload", 0))
    /\ \/ /\ bucket' = Put(bucket, mpu.key, Assemble(mpu.parts, NumParts(Len(fs[args.path]))))
          /\ mpu' = NoMpu
          /\ Return(NoValue)
       \/ /\ mpu' = NoMpu
          /\ \E c \in Causes : Except(c, NoValue)
          /\ UNCHANGED bucket
    /\ UNCHANGED <<fs, op, args, continuation_token, object_keys, responses,
                   transfer, pre, preFs, prev>>

----------------------------------------------------------------------------
(* download_object_s3 *)

\* boto3's managed download writes to a temporary file beside download_path.
TempPath(path) == IF path = "dst" THEN "dst.tmp" ELSE "src.tmp"

DownloadCall(key, path) ==
    /\ Begin("download", [NoArgs EXCEPT !.object_name = key, !.path = path])
    /\ pc' = "download"

\* download_file first asks for the object's size (HeadObject).
DownloadHead ==
    /\ pc = "download"
    /\ requests' = Append(requests, Request("HeadObject", 0))
    /\ \/ /\ args.object_name \in DOMAIN bucket
          /\ pc' = "download_get"
          /\ UNCHANGED <<failed, cause, logged, raised, ret>>
       \/ /\ args.object_name \notin DOMAIN bucket
          /\ Except("not-found", NoValue)
       \/ \E c \in Causes : Except(c, NoValue)
    /\ UNCHANGED <<bucket, fs, mpu, op, args, continuation_token, object_keys,
                   responses, transfer, pre, preFs, prev>>

\* GetObject into the temporary file; a failure removes the temporary file.
DownloadGet ==
    /\ pc = "download_get"
    /\ requests' = Append(requests, Request("GetObject", 0))
    /\ \/ /\ fs' = Put(fs, TempPath(args.path), bucket[args.object_name])
          /\ pc' = "download_rename"
          /\ UNCHANGED <<failed, cause, logged, raised, ret>>
       \/ /\ \E c \in Causes : Except(c, NoValue)
          /\ UNCHANGED fs
    /\ UNCHANGED <<bucket, mpu, op, args, continuation_token, object_keys,
                   responses, transfer, pre, preFs, prev>>

\* The temporary file is renamed to download_path, replacing what was there.
DownloadRename ==
    /\ pc = "download_rename"
    /\ fs' = Remove(Put(fs, args.path, fs[TempPath(args.path)]), TempPath(args.path))
    /\ Return(NoValue)
    /\ UNCHANGED <<bucket, mpu, op, args, continuation_token, object_keys, requests,
                   responses, transfer, pre, preFs, prev>>

----------------------------------------------------------------------------
(* delete_object_s3 *)

DeleteCall(key) ==
    /\ Begin("delete", [NoArgs EXCEPT !.object_name = key])
    /\ pc' = "delete"

\* DeleteRequest, had the deletion of an absent key been refused as not found.
DeleteRequestStrict ==
    /\ pc = "delete"
    /\ requests' = Append(requests, Request("DeleteObject", 0))
    /\ \/ /\ args.object_name \in DOMAIN bucket
          /\ bucket' = Remove(bucket, args.object_name)
          /\ Return(NoValue)
       \/ /\ args.object_name \notin DOMAIN bucket
          /\ Except("not-found", NoValue)
          /\ UNCHANGED bucket
       \/ /\ \E c \in Causes : Except(c, NoValue)
          /\ UNCHANGED bucket
    /\ UNCHANGED <<fs, mpu, op, args, continuation_token, object_keys,
                   responses, transfer, pre, preFs, prev>>

\* DeleteObject: the key is gone afterwards; an absent key is no error.
DeleteRequest ==
    /\ pc = "delete"
    /\ requests' = Append(requests, Request("DeleteObject", 0))
    /\ \/ /\ bucket' = Remove(bucket, args.object_name)
          /\ Return(NoValue)
       \/ /\ \E c \in Causes : Except(c, NoValue)
          /\ UNCHANGED bucket
    /\ UNCHANGED <<fs, mpu, op, args, continuation_token, object_keys,
                   responses, transfer, pre, preFs, prev>>

----------------
(* Specifications. *)

\* Content of the objects the bucket holds at the start.
InitContent == <<7>>

InitList ==
    /\ \E S \in SUBSET Keys : bucket = [k \in S |-> InitContent]
    /\ fs = [p \in {"src"} |-> <<>>]
    /\ mpu = NoMpu
    /\ pc = "idle"
    /\ op = "none"
    /\ args = NoArgs
    /\ continuation_token = None
    /\ object_keys = <<>>
    /\ requests = <<>>
    /\ responses = <<>>
    /\ transfer = "none"
    /\ failed = FALSE
    /\ cause = "none"
    /\ logged = FALSE
    /\ raised = NoError
    /\ ret = NoValue
    /\ pre = bucket
    /\ preFs = fs
    /\ prev = NoCall

ListNext ==
    \/ \E prefix \in Prefixes, max_keys \in 1..MaxPageSize : ListCall(prefix, max_keys)
    \/ ListPage

SpecList == InitList /\ [][ListNext]_vars

\* Keys the transfers and deletes work on, and the paths they use.
TransferKeys == {<<1>>, <<2, 1>>}
OldContent == <<8>>

Init ==
    /\ \E S \in SUBSET TransferKeys : bucket = [k \in S |-> InitContent]
    /\ \E c \in Contents, D \in SUBSET {"dst"} :
         fs = [p \in {"src"} \cup D |-> IF p = "src" THEN c ELSE OldContent]
    /\ mpu = NoMpu
    /\ pc = "idle"
    /\ op = "none"
    /\ args = NoArgs
    /\ continuation_token = None
    /\ object_keys = <<>>
    /\ requests = <<>>
    /\ responses = <<>>
    /\ transfer = "none"
    /\ failed = FALSE
    /\ cause = "none"
    /\ logged = FALSE
    /\ raised = NoError
    /\ ret = NoValue
    /\ pre = bucket
    /\ preFs = fs
    /\ prev = NoCall

Next ==
    \/ \E prefix \in {<<>>, <<1>>}, max_keys \in 1..MaxPageSize : ListCall(prefix, max_keys)
    \/ ListPage
    \/ \E key \in TransferKeys : UploadCall(key, "src")
    \/ UploadSubmit
    \/ \E i \in 1..NumParts(MaxFileSize) : UploadPart(i)
    \/ UploadComplete
    \/ \E key \in TransferKeys : DownloadCall(key, "dst")
    \/ DownloadHead
    \/ DownloadGet
    \/ DownloadRename
    \/ \E key \in TransferKeys : DeleteCall(key)
    \/ DeleteRequest

Spec == Init /\ [][Next]_vars
\* The loop of list_objects_s3 runs on: every request returns or raises.
SpecListFair == SpecList /\ WF_vars(ListPage)

----------------------------------------------------------------------------
(* Properties of list_objects_s3. *)

ListDone == op = "list" /\ pc = "done"

\* The keys of the bucket under the call's prefix.
MatchingKeys == {k \in DOMAIN bucket : IsPrefix(args.prefix, k)}

CeilDiv(a, b) == (a + b - 1) \div b
Max(a, b) == IF a >= b THEN a ELSE b

\* The keys of the first n responses, in order.
RECURSIVE PageKeys(_)
PageKeys(n) ==
    IF n = 0 THEN <<>>
    ELSE PageKeys(n - 1) \o (IF responses[n].ok THEN responses[n].Contents ELSE <<>>)

\* Every response so far filled its page: it held MaxKeys keys, or all that remained.
AllPagesFull ==
    \A i \in 1..Len(responses) :
        responses[i].ok =>
            Len(responses[i].Contents) =
                Min(requests[i].MaxKeys, Len(Remaining(bucket, requests[i])))

Falsy(tok) == tok = None \/ tok.str = <<>>

\* C1: pagination transparency.  When no page request failed, the call
\* returns exactly the keys of the bucket under the prefix, each once and no
\* other, whatever max_keys is; with no matching key it returns the empty
\* list, and no error is raised.
C1_PaginationTransparency ==
    (ListDone /\ ~failed) =>
        /\ ~ret.isNone
        /\ raised = NoError
        /\ SeqToSet(ret.keys) = MatchingKeys
        /\ Len(ret.keys) = Cardinality(MatchingKeys)

C1_Witness ==
    /\ ListDone /\ ~failed
    /\ args.prefix = <<1>>
    /\ <<2, 1>> \in DOMAIN bucket
    /\ Len(ret.keys) >= 3
    /\ Len(requests) >= 2
    /\ args.max_keys >= 2

\* C2 as stated: when no page request failed, the keys come back in the
\* order the service returned them, page after page, and the call issued
\* exactly max(1, ceil(N / max_keys)) requests for N matching keys.
C2_OrderAndRequestCount ==
    (ListDone /\ ~failed) =>
        /\ ret.keys = PageKeys(Len(responses))
        /\ Len(requests) = Max(1, CeilDiv(Cardinality(MatchingKeys), args.max_keys))

\* C2 as amended: when no page request failed, the keys come back in the
\* order the service returned them, page after page; the call issued at
\* least max(1, ceil(N / max_keys)) requests, and exactly that many when
\* the service filled every page.
C2_OrderAndFullPageCount ==
    (ListDone /\ ~failed) =>
        /\ ret.keys = PageKeys(Len(responses))
        /\ Len(requests) >= Max(1, CeilDiv(Cardinality(MatchingKeys), args.max_keys))
        /\ AllPagesFull =>
             Len(requests) = Max(1, CeilDiv(Cardinality(MatchingKeys), args.max_keys))

C2_Witness ==
    /\ ListDone /\ ~failed /\ AllPagesFull
    /\ args.max_keys = 2
    /\ Cardinality(MatchingKeys) = 5
    /\ Len(requests) = 3

\* The token protocol, in every state of a listing.
TokenProtocol ==
    op = "list" =>
        /\ Len(responses) = Len(requests)
        /\ requests # <<>> => requests[1].ContinuationToken = None
        /\ \A i \in 1..Len(requests) :
             /\ requests[i].Bucket = args.bucket_name
             /\ requests[i].Prefix = args.prefix
             /\ requests[i].MaxKeys = args.max_keys
        /\ \A i \in 2..Len(requests) :
             /\ requests[i].ContinuationToken = responses[i - 1].NextContinuationToken
             /\ ~Falsy(requests[i].ContinuationToken)
        /\ \A i \in 1..Len(responses) :
             (responses[i].ok /\ Falsy(responses[i].NextContinuationToken)) =>
                 (i = Len(responses) /\ pc = "done")
        /\ (pc = "list" /\ responses # <<>>) =>
             ~Falsy(responses[Len(responses)].NextContinuationToken)

\* C9: the continuation-token protocol.  The first request carries no
\* token; every later request carries the token of the response just before
\* it, with the same bucket, prefix and max_keys; no request follows the
\* first response whose token is absent or empty; and a listing under way
\* ends.
C9_ContinuationProtocol ==
    /\ []TokenProtocol
    /\ (op = "list" /\ pc = "list") ~> (op = "list" /\ pc = "done")

C9_Witness ==
    /\ ListDone /\ ~failed
    /\ Len(requests) >= 3
    /\ responses[Len(responses)].NextContinuationToken = Str(<<>>)

\* C10: a failed page request ends the listing at once.  The failed request
\* is the last one of the call, every request before it succeeded, and the
\* keys accumulated, which the call returns, are those of the pages before
\* it, in order.
C10_AbortOnFailure ==
    (op = "list" /\ failed) =>
        LET k == Len(requests)
        IN  /\ pc = "done"
            /\ Len(responses) = k
            /\ ~responses[k].ok
            /\ \A i \in 1..(k - 1) : responses[i].ok
            /\ object_keys = PageKeys(k - 1)
            /\ ret.keys = object_keys
            /\ ~ret.isNone

C10_Witness ==
    /\ ListDone /\ failed
    /\ Len(requests) = 3
    /\ Len(object_keys) >= 2
----------------------------------------------------------------------------
(* Properties of the four helpers' error handling. *)

\* The typed error of each operation.
ErrorType(o) ==
    CASE o = "list" -> "ListingError"
      [] o = "upload" -> "UploadError"
      [] o = "download" -> "DownloadError"
      [] o = "delete" -> "DeleteError"
      [] OTHER -> "none"

\* C3: a call one of whose service requests failed surfaces the typed error
\* of its operation, carrying the cause, to its caller: it does not
\* complete with a normal return.
C3_FailureSurfaces ==
    (pc = "done" /\ failed) =>
        /\ raised.type = ErrorType(op)
        /\ raised.cause = cause

\* C4: a download of a key that is not in the bucket surfaces a
\* DownloadError whose cause is not-found, and leaves the local filesystem
\* as it was: no file at the download path that was not there before.
C4_MissingKeyDownload ==
    (op = "download" /\ pc = "done" /\ cause = "not-found") =>
        /\ raised = [type |-> "DownloadError", cause |-> "not-found"]
        /\ fs = preFs

----------------------------------------------------------------------------
(* Properties of delete_object_s3 and of the transfers. *)

Served(o) == op = o /\ pc = "done" /\ ~failed

\* C5: delete is idempotent.  No delete is refused because the key is
\* absent; a served delete leaves the key absent and every other object as
\* it was; and a served delete straight after a served delete of the same
\* key leaves the bucket as the first one left it, with no error.
C5_DeleteIdempotent ==
    /\ op = "delete" => cause # "not-found"
    /\ Served("delete") =>
         /\ raised = NoError
         /\ bucket = Remove(pre, args.object_name)
    /\ (/\ Served("delete")
        /\ prev.op = "delete" /\ prev.ok
        /\ prev.object_name = args.object_name) =>
         /\ bucket = pre
         /\ args.object_name \notin DOMAIN bucket

C5_Witness ==
    /\ Served("delete")
    /\ prev.op = "delete" /\ prev.ok
    /\ prev.object_name = args.object_name
    /\ DOMAIN bucket # {}

\* C6: round trip.  A served download of a key straight after a served
\* upload of a file to that key leaves the download path with the content
\* of the uploaded file, whichever transfer the upload used and whatever
\* was at the download path before; no temporary file is left.
C6_RoundTrip ==
    (/\ Served("download")
     /\ prev.op = "upload" /\ prev.ok
     /\ prev.object_name = args.object_name) =>
        /\ args.path \in DOMAIN fs
        /\ fs[args.path] = fs[prev.path]
        /\ DOMAIN fs = DOMAIN preFs \cup {args.path}
        /\ \A p \in DOMAIN preFs \ {args.path} : fs[p] = preFs[p]

C6_Witness ==
    /\ Served("download")
    /\ prev.op = "upload" /\ prev.ok /\ prev.transfer = "multipart"
    /\ prev.object_name = args.object_name
    /\ NumParts(Len(fs[prev.path])) >= 3
    /\ args.path \in DOMAIN preFs
    /\ preFs[args.path] # fs[args.path]

\* C7: an upload is a single-request transfer when the file's size is at
\* most the threshold, and a multipart one only when it is larger; a file
\* of exactly the threshold goes in a single request.
C7_PathSelection ==
    (op = "upload" /\ transfer # "none") =>
        (transfer = "single" <=> Len(fs[args.path]) <= multipart_threshold)

\* The upload requests of the call that sent a part.
PartsSent == {i \in 1..Len(requests) : requests[i].Request = "UploadPart"}

\* C8: upload atomicity.  While an upload runs, and after one that failed,
\* the bucket is what it was when the call began, and no multipart upload
\* stays open after the call; after an upload that succeeded the bucket
\* differs only by the whole file under the key.
C8_UploadAtomic ==
    op = "upload" =>
        /\ pc # "done" => bucket = pre
        /\ (pc = "done" /\ failed) => (bucket = pre /\ ~mpu.open)
        /\ (pc = "done" /\ ~failed) =>
             (bucket = Put(pre, args.object_name, fs[args.path]) /\ ~mpu.open)

C8_Witness ==
    /\ op = "upload" /\ pc = "done" /\ failed
    /\ transfer = "multipart"
    /\ Cardinality(PartsSent) = 2
    /\ NumParts(Len(fs[args.path])) = 3
    /\ args.object_name \notin DOMAIN bucket
====
